---- MODULE Spec2Model ----
(***************************************************************************)
(* State-machine model of tools/waf_tester.py: the WAF test harness.       *)
(* One process (main) runs a health check, then the 22 catalogue tests in  *)
(* five sections, prints per-section lines and a summary, and exits.  The  *)
(* environment is the target server (its answers) and the user (Ctrl-C).   *)
(***************************************************************************)
EXTENDS Integers, Sequences, FiniteSets, TLC

VARIABLES pc, json, idx, sec, results, requests, resp, out, summary, report,
          exit_code, health, interrupted

vars == <<pc, json, idx, sec, results, requests, resp, out, summary, report,
          exit_code, health, interrupted>>

-----------------------------------------------------------------------------
(* Bounds of the environment.                                              *)

\* The target answers a test as a correctly configured WAF would, except
\* for at most MaxDeviations tests of a run, which it answers arbitrarily.
MaxDeviations == 1

\* Rule ids the target may report are 0..MaxRuleId.
MaxRuleId == 1

-----------------------------------------------------------------------------
(* Python values.                                                          *)

\* Optional values: None is the empty tuple, a present value x is <<x>>.
None == <<>>

Some(x) == <<x>>

\* Python truthiness of an optional integer: None and 0 are falsy.
Truthy(v) == v # None /\ v[1] # 0

\* a or b
PyOr(a, b) == IF a # None THEN a ELSE b

\* Variant of LastN: the slice starts one element too early (s[-(n+1):]).
LastNOneMore(s, n) == SubSeq(s, IF Len(s) > n + 1 THEN Len(s) - n ELSE 1, Len(s))

\* s[-n:]
LastN(s, n) == SubSeq(s, IF Len(s) > n THEN Len(s) - n + 1 ELSE 1, Len(s))

\* sys.exit(arg): None means success
SysExit(arg) == IF arg = None THEN 0 ELSE arg[1]

-----------------------------------------------------------------------------
(* The test catalogue, in the order run_all_tests executes it.  A payload  *)
(* is written key=value; the backquotes of "RCE - Backtick" are written as *)
(* apostrophes.                                                            *)

T(n, c, m, p, q, e) ==
    [name |-> n, category |-> c, method |-> m, path |-> p, payload |-> q,
     expected_blocked |-> e]

Catalogue ==
    << T("Basic SQLi - Union Select", "SQLi", "GET", "/", "id=1' OR '1'='1", TRUE),
       T("SQLi - Union Select", "SQLi", "GET", "/", "q=test UNION SELECT password FROM users", TRUE),
       T("SQLi - Comment", "SQLi", "GET", "/", "id=1'--", TRUE),
       T("SQLi - Boolean", "SQLi", "GET", "/", "user=admin' AND '1'='1", TRUE),
       T("SQLi - Time-based", "SQLi", "GET", "/", "id=1' AND SLEEP(5)--", TRUE),
       T("SQLi - POST Body", "SQLi", "POST", "/api/login", "password=pass' OR '1'='1", TRUE),
       T("SQLi - URL Encoded", "SQLi", "GET", "/", "id=1%27%20OR%20%271%27%3D%271", TRUE),
       T("XSS - Script Tag", "XSS", "GET", "/", "q=<script>alert('xss')</script>", TRUE),
       T("XSS - JavaScript Protocol", "XSS", "GET", "/", "url=javascript:alert(1)", TRUE),
       T("XSS - Event Handler", "XSS", "GET", "/", "input=<img src=x onerror=alert(1)>", TRUE),
       T("XSS - Iframe", "XSS", "GET", "/", "content=<iframe src=evil.com></iframe>", TRUE),
       T("XSS - Document Cookie", "XSS", "GET", "/", "q=test<script>document.cookie</script>", TRUE),
       T("XSS - POST Body", "XSS", "POST", "/api/comment", "comment=<script>alert('xss')</script>", TRUE),
       T("LFI - Basic", "Path Traversal", "GET", "/", "file=../../../etc/passwd", TRUE),
       T("LFI - Encoded", "Path Traversal", "GET", "/", "file=..%2F..%2F..%2Fetc%2Fpasswd", TRUE),
       T("LFI - Null Byte", "Path Traversal", "GET", "/", "file=../../../etc/passwd%00", TRUE),
       T("RCE - Basic", "Command Injection", "GET", "/", "cmd=; ls -la", TRUE),
       T("RCE - Pipe", "Command Injection", "GET", "/", "input=test | cat /etc/passwd", TRUE),
       T("RCE - Backtick", "Command Injection", "GET", "/", "q=test 'whoami'", TRUE),
       T("Normal GET", "Normal", "GET", "/", "page=home", FALSE),
       T("Normal POST", "Normal", "POST", "/api/users", "name=John,email=john@example.com", FALSE),
       T("Normal Query", "Normal", "GET", "/search", "q=hello world", FALSE) >>

\* The five sections of run_all_tests: the header printed, the index of the
\* last run_test call of the section, and the n of its results[-n:] loop.
Sections ==
    << [header |-> "[1] SQL Injection Tests", last |-> 7, slice |-> 7],
       [header |-> "[2] XSS (Cross-Site Scripting) Tests", last |-> 13, slice |-> 6],
       [header |-> "[3] Path Traversal Tests", last |-> 16, slice |-> 3],
       [header |-> "[4] Command Injection Tests", last |-> 19, slice |-> 3],
       [header |-> "[5] Normal Requests (Should Pass)", last |-> 22, slice |-> 3] >>

\* The request of the health check.
HealthRequest == [method |-> "GET", path |-> "/health", payload |-> ""]

\* The request run_test issues for catalogue entry t.
RequestOf(t) == [method |-> t.method, path |-> t.path, payload |-> t.payload]

-----------------------------------------------------------------------------
(* The target: status codes and bodies it may answer with.                 *)

RuleIds == 0 .. MaxRuleId

TestStatuses == {200, 403}

HealthStatuses == {200, 503}

\* A body is not JSON (or empty), a JSON list, or a JSON object; the object
\* of a 403 answer may name the rule that matched.
Bodies(status) ==
    { [kind |-> "nonjson", rule_id |-> None], [kind |-> "list", rule_id |-> None],
      [kind |-> "map", rule_id |-> None] }
    \cup (IF status = 403
          THEN { [kind |-> "map", rule_id |-> Some(i)] : i \in RuleIds }
          ELSE {})

\* What a correctly configured WAF answers to catalogue entry t.
Nominal(t) ==
    [status |-> IF t.expected_blocked THEN 403 ELSE 200,
     body |-> [kind |-> "nonjson", rule_id |-> None]]

\* Number of recorded results that are not the nominal answer's result.
Deviations(res) ==
    Cardinality({ i \in 1 .. Len(res) :
        \/ res[i].status_code # Nominal(Catalogue[i]).status
        \/ res[i].rule_id # None })

\* The target has answers to spare for deviating: always for the health
\* check (request 0), which is outside the catalogue.
MayDeviate == IF idx = 0 THEN TRUE ELSE Deviations(results) < MaxDeviations

\* The answers the target may give to request idx.
Answers ==
    LET any == { [status |-> st, body |-> b] :
                    st \in (IF idx = 0 THEN HealthStatuses ELSE TestStatuses),
                    b \in Bodies(403) }
        all == { r \in any : r.body \in Bodies(r.status) }
    IN IF MayDeviate THEN all ELSE { Nominal(Catalogue[idx]) }

-----------------------------------------------------------------------------
(* test_request: the parsed response.                                      *)

EmptyDict == [type |-> "dict", rule_id |-> None, message |-> None, error |-> None]

\* response.json(), with the bare except of line 58 substituting {}.
ParseJson(body) ==
    CASE body.kind = "nonjson" -> EmptyDict
      [] body.kind = "list" -> [type |-> "list", rule_id |-> None, message |-> None, error |-> None]
      [] body.kind = "map" -> [type |-> "dict", rule_id |-> body.rule_id, message |-> None, error |-> None]

\* The mapping returned on requests.exceptions.RequestException.
ErrorDict == [type |-> "dict", rule_id |-> None, message |-> None, error |-> Some("RequestException")]

-----------------------------------------------------------------------------
(* run_test                                                                *)

\* Variant of Blocked: anything but 200 counts as blocked.
BlockedUnless200(status_code) == status_code # 200

Blocked(status_code) == status_code = 403

TestResult(t, status_code, response) ==
    [name |-> t.name, category |-> t.category, payload |-> t.payload,
     expected_blocked |-> t.expected_blocked,
     actual_blocked |-> Blocked(status_code),
     status_code |-> status_code,
     rule_id |-> response.rule_id,
     message |-> PyOr(response.message, response.error)]

\* Variant of AppendResult: a failed request is retried and recorded twice.
AppendResultWithRetry(res, r) ==
    IF r.status_code = 0 THEN res \o <<r, r>> ELSE Append(res, r)

\* self.results.append(result)
AppendResult(res, r) == Append(res, r)

-----------------------------------------------------------------------------
(* Output events.                                                          *)

Ev(k, a) == [kind |-> k, arg |-> a]

\* print_test_result: the per-test lines of the results in rs.
RECURSIVE Lines(_)
Lines(rs) == IF rs = <<>> THEN <<>> ELSE <<Ev("line", Head(rs).name)>> \o Lines(Tail(rs))

-----------------------------------------------------------------------------
(* print_summary                                                           *)

Passes(r) == r.actual_blocked = r.expected_blocked

\* sum(1 for r in res if r.actual_blocked == r.expected_blocked)
CountPassed(res) == Cardinality({ i \in 1 .. Len(res) : Passes(res[i]) })

\* sum(1 for r in res if r.rule_id == rule_id)
CountRule(res, rule_id) == Cardinality({ i \in 1 .. Len(res) : res[i].rule_id = Some(rule_id) })

\* The categories dictionary built by the loop of lines 208-216.
RECURSIVE Tally(_, _)
Tally(res, cats) ==
    IF res = <<>> THEN cats
    ELSE LET r == Head(res)
             c == r.category
             old == IF c \in DOMAIN cats THEN cats[c]
                    ELSE [total |-> 0, passed |-> 0, failed |-> 0]
             new == [total |-> old.total + 1,
                     passed |-> old.passed + (IF Passes(r) THEN 1 ELSE 0),
                     failed |-> old.failed + (IF Passes(r) THEN 0 ELSE 1)]
         IN Tally(Tail(res), [k \in DOMAIN cats \cup {c} |-> IF k = c THEN new ELSE cats[k]])

\* sorted(S) for a set of integers
RECURSIVE Sorted(_)
Sorted(S) ==
    IF S = {} THEN <<>>
    ELSE LET m == CHOOSE x \in S : \A y \in S : x <= y
         IN <<m>> \o Sorted(S \ {m})

\* rule_ids = set(r.rule_id for r in self.results if r.rule_id)
TriggeredRuleIds(res) ==
    { res[i].rule_id[1] : i \in { j \in 1 .. Len(res) : Truthy(res[j].rule_id) } }

\* The "Triggered Rules" lines: (rule id, count) in sorted order.
RuleCoverage(res) ==
    LET ids == Sorted(TriggeredRuleIds(res))
    IN [k \in 1 .. Len(ids) |->
          [rule_id |-> ids[k],
           count |-> CountRule(res, ids[k])]]

\* The figures print_summary prints, and the value it returns.
Summary(res) ==
    LET total == Len(res)
        passed == CountPassed(res)
        failed == total - passed
    IN [total |-> total, passed |-> passed, failed |-> failed,
        categories |-> Tally(res, <<>>),
        rules |-> RuleCoverage(res),
        ret |-> IF failed = 0 THEN 0 ELSE 1]

\* run_all_tests ends with a bare call of print_summary: it returns None.
RunAllTestsReturn(res) == None

-----------------------------------------------------------------------------
(* main: the --json document.                                              *)

JsonTotal(res) == Len(res)

JsonPassed(res) == CountPassed(res)

\* Variant of JsonFailed: counts the results that were not blocked.
JsonFailedNotBlocked(res) == Cardinality({ i \in 1 .. Len(res) : ~res[i].actual_blocked })

JsonFailed(res) ==
    Cardinality({ i \in 1 .. Len(res) : res[i].actual_blocked # res[i].expected_blocked })

JsonDocument(res) ==
    [total |-> JsonTotal(res), passed |-> JsonPassed(res),
     failed |-> JsonFailed(res), results |-> res]

\* Variant of HealthOK: any answer of the target passes, only a network
\* failure does not.
HealthOKAnyAnswer(status) == status # 0

\* main, line 281: if status != 200
HealthOK(status) == status = 200

-----------------------------------------------------------------------------
(* The program.  pc is the position of main:                               *)
(*   "send"     about to call session.get/post for request idx             *)
(*              (0 is the health check, 1..22 the catalogue tests)         *)
(*   "inflight" the request is sent, the answer is awaited                 *)
(*   "parse"    the answer resp has arrived, response.json() is running    *)
(*   "header"   about to print the header of section sec                   *)
(*   "print"    about to run the results[-n:] print loop of section sec    *)
(*   "summary"  about to call print_summary                                *)
(*   "returned" run_all_tests has returned to main                         *)
(*   "exited"   the process has exited with exit_code                      *)
(* interrupted tells whether the step just taken was the delivery of a     *)
(* KeyboardInterrupt (Ctrl-C).                                             *)

Init ==
    /\ pc = "send"
    /\ json \in BOOLEAN
    /\ idx = 0
    /\ sec = 1
    /\ results = <<>>
    /\ requests = <<>>
    /\ resp = None
    /\ out = <<>>
    /\ summary = None
    /\ report = None
    /\ exit_code = None
    /\ health = None
    /\ interrupted = FALSE

\* sys.exit(code) after printing the events evs
Exit(evs, code) ==
    /\ out' = out \o evs
    /\ exit_code' = Some(code)
    /\ pc' = "exited"

\* main, lines 280-284: the code after the health check's test_request.
AfterHealth(status_code) ==
    /\ health' = Some(status_code)
    /\ IF HealthOK(status_code)
       THEN /\ pc' = "header"
            /\ idx' = 1
            /\ UNCHANGED <<out, exit_code>>
       ELSE /\ Exit(<<Ev("error", "WAF is not responding")>>, 1)
            /\ UNCHANGED idx
    /\ UNCHANGED <<results, sec>>

\* run_test, lines 73-90: the code after test_request returned.  A parsed
\* body that is no mapping has no get(): the AttributeError reaches main's
\* except Exception (lines 319-321).
AfterTest(status_code, response) ==
    /\ IF response.type = "dict"
       THEN /\ results' = AppendResult(results, TestResult(Catalogue[idx], status_code, response))
            /\ idx' = idx + 1
            /\ pc' = IF idx = Sections[sec].last THEN "print" ELSE "send"
            /\ UNCHANGED <<out, exit_code>>
       ELSE /\ Exit(<<Ev("error", "AttributeError")>>, 1)
            /\ UNCHANGED <<results, idx>>
    /\ UNCHANGED <<health, sec>>

AfterRequest(status_code, response) ==
    IF idx = 0 THEN AfterHealth(status_code) ELSE AfterTest(status_code, response)

\* test_request, lines 46-52: the one session call of the request.
SendRequest ==
    /\ pc = "send"
    /\ requests' = Append(requests, IF idx = 0 THEN HealthRequest ELSE RequestOf(Catalogue[idx]))
    /\ pc' = "inflight"
    /\ UNCHANGED <<json, idx, sec, results, resp, out, summary, report, exit_code,
                   health>>
    /\ interrupted' = FALSE

\* test_request, lines 63-65: the request fails or times out; the caller
\* gets (0, {"error": ...}) and goes on.
NetworkFailure ==
    /\ pc = "inflight"
    /\ MayDeviate
    /\ AfterRequest(0, ErrorDict)
    /\ UNCHANGED <<json, requests, resp, summary, report>>
    /\ interrupted' = FALSE

\* The target answers the request in flight.
ResponseArrives ==
    /\ pc = "inflight"
    /\ \E r \in Answers : resp' = Some(r)
    /\ pc' = "parse"
    /\ UNCHANGED <<json, idx, sec, results, requests, out, summary, report, exit_code,
                   health>>
    /\ interrupted' = FALSE

\* test_request, lines 56-61: the body is parsed and the caller goes on.
ParseBody ==
    /\ pc = "parse"
    /\ AfterRequest(resp[1].status, ParseJson(resp[1].body))
    /\ resp' = None
    /\ UNCHANGED <<json, requests, summary, report>>
    /\ interrupted' = FALSE

\* test_request, lines 56-59: Ctrl-C arrives while response.json() runs.
\* The bare except catches the KeyboardInterrupt and substitutes {}.
ParseInterrupted ==
    /\ pc = "parse"
    /\ interrupted' = TRUE
    /\ AfterRequest(resp[1].status, EmptyDict)
    /\ resp' = None
    /\ UNCHANGED <<json, requests, summary, report>>

\* run_all_tests: the banner (lines 106-109, before section 1) and the
\* header of section sec.
PrintHeader ==
    /\ pc = "header"
    /\ out' = out \o (IF sec = 1 THEN <<Ev("banner", "WAF Test Suite")>> ELSE <<>>)
                  \o <<Ev("header", Sections[sec].header)>>
    /\ pc' = "send"
    /\ UNCHANGED <<json, idx, sec, results, requests, resp, summary, report, exit_code,
                   health>>
    /\ interrupted' = FALSE

\* run_all_tests: for result in self.results[-n:]: print_test_result(result)
PrintSection ==
    /\ pc = "print"
    /\ out' = out \o Lines(LastN(results, Sections[sec].slice))
    /\ IF sec < Len(Sections)
       THEN sec' = sec + 1 /\ pc' = "header"
       ELSE sec' = sec /\ pc' = "summary"
    /\ UNCHANGED <<json, idx, results, requests, resp, summary, report, exit_code,
                   health>>
    /\ interrupted' = FALSE

\* run_all_tests, line 196: self.print_summary(), and the return to main.
PrintSummary ==
    /\ pc = "summary"
    /\ summary' = Some(Summary(results))
    /\ out' = Append(out, Ev("summary", "Test Summary"))
    /\ pc' = "returned"
    /\ UNCHANGED <<json, idx, sec, results, requests, resp, report, exit_code,
                   health>>
    /\ interrupted' = FALSE

\* main, lines 289-310: the JSON document is printed and main returns.
MainJson ==
    /\ pc = "returned"
    /\ json
    /\ report' = Some(JsonDocument(results))
    /\ Exit(<<Ev("json", "document")>>, 0)
    /\ UNCHANGED <<json, idx, sec, results, requests, resp, summary, health>>
    /\ interrupted' = FALSE

\* main, lines 313-314: exit_code = tester.run_all_tests(); sys.exit(exit_code)
MainConsole ==
    /\ pc = "returned"
    /\ ~json
    /\ Exit(<<>>, SysExit(RunAllTestsReturn(results)))
    /\ UNCHANGED <<json, idx, sec, results, requests, resp, summary, report, health>>
    /\ interrupted' = FALSE

\* Ctrl-C anywhere in main's try block outside response.json(): the
\* KeyboardInterrupt reaches main's handler (lines 316-318).
KeyboardInterrupt ==
    /\ pc \in {"send", "inflight", "header", "print", "summary", "returned"}
    /\ interrupted' = TRUE
    /\ Exit(<<Ev("interrupt", "Test interrupted by user")>>, 130)
    /\ UNCHANGED <<json, idx, sec, results, requests, resp, summary, report, health>>

Next ==
    \/ SendRequest
    \/ NetworkFailure
    \/ ResponseArrives
    \/ ParseBody
    \/ ParseInterrupted
    \/ PrintHeader
    \/ PrintSection
    \/ PrintSummary
    \/ MainJson
    \/ MainConsole
    \/ KeyboardInterrupt

Spec == Init /\ [][Next]_vars

-----------------------------------------------------------------------------
(* Helpers of the properties.                                              *)

Failed(res) == { i \in 1 .. Len(res) : res[i].actual_blocked # res[i].expected_blocked }

Exited(code) == pc = "exited" /\ exit_code = Some(code)

\* The run got through the whole catalogue and was not cut short by Ctrl-C.
RunCompleted == pc = "exited" /\ Len(results) = Len(Catalogue) /\ exit_code # Some(130)

\* The number of per-test lines printed so far.
PrintedLines == Cardinality({ k \in 1 .. Len(out) : out[k].kind = "line" })

\* The section each catalogue test belongs to.
SectionOf ==
    [i \in 1 .. Len(Catalogue) |->
        CHOOSE s \in 1 .. Len(Sections) :
            /\ i <= Sections[s].last
            /\ s = 1 \/ i > Sections[s - 1].last]

\* The requests of a full run: the health check, then one per catalogue test.
ExpectedRequests ==
    [k \in 1 .. Len(Catalogue) + 1 |->
        IF k = 1 THEN HealthRequest ELSE RequestOf(Catalogue[k - 1])]

\* From output position k on, every per-test line reports the next result
\* in execution order and stands under the header of that result's section;
\* n lines precede position k and h is the header printed last before it.
RECURSIVE LinesInOrderUnderHeader(_, _, _)
LinesInOrderUnderHeader(k, n, h) ==
    IF k > Len(out) THEN TRUE
    ELSE IF out[k].kind = "header" THEN LinesInOrderUnderHeader(k + 1, n, out[k].arg)
    ELSE IF out[k].kind = "line"
         THEN /\ n + 1 <= Len(results)
              /\ out[k].arg = results[n + 1].name
              /\ h = Sections[SectionOf[n + 1]].header
              /\ LinesInOrderUnderHeader(k + 1, n + 1, h)
    ELSE LinesInOrderUnderHeader(k + 1, n, h)

RECURSIVE SumTotals(_, _)
SumTotals(cats, keys) ==
    IF keys = {} THEN 0
    ELSE LET k == CHOOSE x \in keys : TRUE
         IN cats[k].total + SumTotals(cats, keys \ {k})

InCategory(res, c) == { i \in 1 .. Len(res) : res[i].category = c }

-----------------------------------------------------------------------------
(* Properties.                                                             *)

\* C1: in console mode, after a passing health check and a run through all
\* tests, the exit code is 0 iff no result has actual_blocked different from
\* expected_blocked, and it is 1 whenever a test failed.
C1_ExitCodeReflectsFailures ==
    (RunCompleted /\ ~json) =>
        /\ (exit_code = Some(0)) <=> (Failed(results) = {})
        /\ (Failed(results) # {}) => exit_code = Some(1)

\* C2: every result in the results list is blocked exactly when its status
\* code is 403; every other status, the 0 sentinel included, is not blocked.
C2_BlockedIff403 ==
    \A i \in 1 .. Len(results) :
        results[i].actual_blocked = (results[i].status_code = 403)

\* C2 witness: the list holds a 403 result recorded as blocked and a
\* network failure (status 0) recorded as not blocked.
C2_Witness ==
    /\ \E i \in 1 .. Len(results) : results[i].status_code = 403 /\ results[i].actual_blocked
    /\ \E i \in 1 .. Len(results) : results[i].status_code = 0 /\ ~results[i].actual_blocked

\* C3: whatever the target answers to a test, a TestResult is recorded and
\* the run goes on: a run that passed the health check and was not
\* interrupted ends only after all catalogue tests have a result and the
\* summary is printed.
C3_EveryOutcomeRecorded ==
    (pc = "exited" /\ health = Some(200) /\ exit_code # Some(130)) =>
        /\ Len(results) = Len(Catalogue)
        /\ summary # None

\* C4: a health check answered with anything but 200 (the 0 sentinel
\* included) ends the run at once, in either mode: no test request is
\* sent, the results list is empty, nothing is reported, the exit status is
\* non-zero; and a test request is only ever sent after a 200.
C4_HealthGate ==
    /\ (health # None /\ health # Some(200)) =>
          /\ pc = "exited"
          /\ exit_code # Some(0)
          /\ results = <<>>
          /\ requests = <<HealthRequest>>
          /\ summary = None /\ report = None
    /\ Len(requests) > 1 => health = Some(200)

\* C4 witness: in JSON mode the health check was answered 503 and the
\* process has exited with status 1.
C4_Witness == json /\ health = Some(503) /\ Exited(1)

\* C5: in JSON mode nothing is printed incrementally: no per-test line, no
\* category header and no summary is ever written to the output.
C5_NoIncrementalOutputInJsonMode ==
    json => \A k \in 1 .. Len(out) : out[k].kind \notin {"line", "header", "summary"}

\* C6: requests, tests and results correspond one to one and in order, with
\* no retry: the first request is the health check and records no result,
\* request i+1 is that of catalogue test i and result i is that test's, a
\* request is issued only when every earlier one has its result, at most one
\* request is outstanding, a failed request is recorded once with status 0,
\* and a finished run holds the 22 catalogue tests in catalogue order.
C6_OneRequestOneResultInOrder ==
    /\ Len(requests) <= Len(ExpectedRequests)
    /\ requests = SubSeq(ExpectedRequests, 1, Len(requests))
    /\ requests = <<>> => results = <<>>
    /\ requests # <<>> => Len(results) \in {Len(requests) - 2, Len(requests) - 1}
    /\ \A i \in 1 .. Len(results) :
          /\ results[i].name = Catalogue[i].name
          /\ results[i].category = Catalogue[i].category
          /\ results[i].expected_blocked = Catalogue[i].expected_blocked
          /\ (results[i].status_code = 0) <=> (results[i].message = Some("RequestException"))
    /\ (requests # <<>> /\ pc \in {"send", "header", "print", "summary", "returned"}) =>
          Len(results) = Len(requests) - 1
    /\ (summary # None \/ pc \in {"summary", "returned"}) => Len(results) = Len(Catalogue)

\* C6 witness: a finished run of 22 results, one of them a network failure.
C6_Witness ==
    /\ Exited(0)
    /\ Len(results) = Len(Catalogue)
    /\ Len(requests) = Len(Catalogue) + 1
    /\ \E i \in 1 .. Len(results) : results[i].status_code = 0

\* C7: a keyboard interrupt arriving at any point, also while a response
\* body is being parsed, ends the run at once with exit code 130.
C7_InterruptAborts == interrupted => Exited(130)

\* C8: the rule coverage of the summary lists every distinct rule_id
\* present in the results (any integer), once each, in ascending order, with
\* the number of results carrying it; results without rule_id add nothing.
C8_RuleCoverage ==
    summary # None =>
        LET rules == summary[1].rules
            observed == { results[i].rule_id[1] :
                            i \in { j \in 1 .. Len(results) : results[j].rule_id # None } }
        IN /\ { rules[k].rule_id : k \in 1 .. Len(rules) } = observed
           /\ \A k \in 1 .. Len(rules) - 1 : rules[k].rule_id < rules[k + 1].rule_id
           /\ \A k \in 1 .. Len(rules) :
                 rules[k].count =
                     Cardinality({ i \in 1 .. Len(results) :
                                     results[i].rule_id = Some(rules[k].rule_id) })

\* C9: in the console summary and in the JSON document passed counts the
\* results with actual_blocked = expected_blocked, passed + failed is the
\* number of results, each category has passed + failed = total, and the
\* category totals add up to the overall total.
C9_CountsAddUp ==
    /\ summary # None =>
          LET s == summary[1]
          IN /\ s.total = Len(results)
             /\ s.passed = Len(results) - Cardinality(Failed(results))
             /\ s.passed + s.failed = s.total
             /\ DOMAIN s.categories = { results[i].category : i \in 1 .. Len(results) }
             /\ \A c \in DOMAIN s.categories :
                   /\ s.categories[c].total = Cardinality(InCategory(results, c))
                   /\ s.categories[c].failed = Cardinality(InCategory(results, c) \cap Failed(results))
                   /\ s.categories[c].passed + s.categories[c].failed = s.categories[c].total
             /\ SumTotals(s.categories, DOMAIN s.categories) = s.total
    /\ report # None =>
          LET d == report[1]
          IN /\ d.total = Len(results)
             /\ d.passed = Len(results) - Cardinality(Failed(results))
             /\ d.passed + d.failed = d.total

\* C9 witness: the JSON document and the summary of a run with one failed
\* and 21 passed tests.
C9_Witness ==
    /\ report # None /\ summary # None
    /\ report[1].failed = 1 /\ report[1].passed = 21
    /\ summary[1].failed = 1

\* C10: in console mode the per-test lines are the results in execution
\* order, one line each; a section's lines are printed together under that
\* section's header, after all its requests are done and before any request
\* of the next section is issued; a finished run has printed every result.
C10_LinesPerSection ==
    ~json =>
        LET p == PrintedLines
        IN /\ p <= Len(results)
           /\ LinesInOrderUnderHeader(1, 0, "")
           /\ p = 0 \/ \E s \in 1 .. Len(Sections) : p = Sections[s].last
           /\ \A s \in 1 .. Len(Sections) :
                 p < Sections[s].last => Len(requests) - 1 <= Sections[s].last
           /\ (summary # None \/ pc \in {"summary", "returned"}) => p = Len(Catalogue)

\* C10 witness: console mode, the second test of section 3 is in flight and
\* exactly the 13 lines of sections 1 and 2 are printed.
C10_Witness ==
    /\ ~json /\ pc = "inflight" /\ idx = 15
    /\ PrintedLines = 13
    /\ Len(results) = 14

====
